---------------------------- MODULE Spec2Model ----------------------------
(***************************************************************************)
(* Model of bitarray/util.py: strip, make_endian, ba2hex / hex2ba,         *)
(* ba2int / int2ba and huffman_code.                                       *)
(*                                                                         *)
(* A bitarray is the record [endian, bits]: bits is the sequence of its    *)
(* items (0/1) by index, endian is its bit-endianness.  Its byte buffer is *)
(* derived from the two (tobytes, buffer).  The unused bits of the last    *)
(* byte of a buffer, and the items of a bitarray created from a length     *)
(* alone, are not initialised by the library: wherever the code reads      *)
(* them, they are an extra argument the calling action chooses freely.     *)
(***************************************************************************)
EXTENDS Integers, Sequences, FiniteSets, Bags, TLC

VARIABLES op, pc, inp, mid, out, minheap, merges

vars == <<op, pc, inp, mid, out, minheap, merges>>

(***************************************************************************)
(* Bounds of the model.                                                    *)
(***************************************************************************)
MaxBits == 9
MaxNibbles == 3
MaxInt == 260
MaxLength == 17
MaxSyms == 4
MaxFreq == 3

BitsPerByte == 8
BitsPerNibble == 4
ByteValues == 256
NibbleValues == 16
NONE == -1

Endians == {"big", "little"}
Bit == {0, 1}

\* what a call gives: a returned value, or a raised exception
None == [none |-> TRUE]
Ok(x) == [val |-> x]
Raise(kind) == [exc |-> kind]
IsOk(r) == "val" \in DOMAIN r
IsError(r) == "exc" \in DOMAIN r

\* F applied to the value of v.  (A LET definition is evaluated anew wherever
\* it is used; a bound variable holds a value.)
Let(v, F(_)) == CHOOSE r \in {F(x) : x \in {v}} : TRUE

RECURSIVE Pow2(_)
Pow2(n) == IF n = 0 THEN 1 ELSE 2 * Pow2(n - 1)

(***************************************************************************)
(* Primitives of the bitarray type.                                        *)
(***************************************************************************)
bitarray(bits, endian) == [endian |-> endian, bits |-> bits]

length(a) == Len(a.bits)

bits2bytes(n) == (n + BitsPerByte - 1) \div BitsPerByte

\* the number of unused bits in the buffer of n items
padlen(n) == BitsPerByte * bits2bytes(n) - n

\* mask of item k (0..7) of a byte
PowTable == [k \in 0..(BitsPerByte - 1) |-> Pow2(k)]
BITMASK(endian, k) == IF endian = "big" THEN PowTable[BitsPerByte - 1 - k] ELSE PowTable[k]

\* a.index(1): position of the first 1, or NONE (ValueError)
index(a) == IF \E k \in 1..Len(a.bits) : a.bits[k] = 1
            THEN (CHOOSE k \in 1..Len(a.bits) :
                     a.bits[k] = 1 /\ \A j \in 1..(k - 1) : a.bits[j] = 0) - 1
            ELSE NONE

\* rindex(a): position of the last 1, or NONE (ValueError)
rindex(a) == IF \E k \in 1..Len(a.bits) : a.bits[k] = 1
             THEN (CHOOSE k \in 1..Len(a.bits) :
                      a.bits[k] = 1 /\ \A j \in (k + 1)..Len(a.bits) : a.bits[j] = 0) - 1
             ELSE NONE

\* a[first:last]  (0 <= first, last <= length; empty when first >= last)
slice(a, first, last) == bitarray(SubSeq(a.bits, first + 1, last), a.endian)

\* a + b: the result has the endianness of a
concat(a, b) == bitarray(a.bits \o b.bits, a.endian)

\* the value of one byte holding the eight items s
PackByte(endian, s) ==
    LET RECURSIVE Sum(_)
        Sum(k) == IF k = BitsPerByte THEN 0
                  ELSE s[k + 1] * BITMASK(endian, k) + Sum(k + 1)
    IN  Sum(0)

\* the eight items held by a byte of value v
UnpackByte(endian, v) ==
    [k \in 1..BitsPerByte |-> (v \div BITMASK(endian, k - 1)) % 2]

\* the buffer of a, its unused bits being pad
pack(endian, all) ==
    [j \in 1..(Len(all) \div BitsPerByte) |->
        PackByte(endian, SubSeq(all, BitsPerByte * (j - 1) + 1, BitsPerByte * j))]

buffer(a, pad) == pack(a.endian, a.bits \o pad)

\* a.tobytes(): the unused bits are set to 0 first
tobytes(a) == buffer(a, [k \in 1..padlen(length(a)) |-> 0])

\* a.frombytes(b): appends the items of the bytes b
RECURSIVE unpack(_, _)
unpack(endian, b) ==
    IF b = <<>> THEN <<>>
    ELSE UnpackByte(endian, Head(b)) \o unpack(endian, Tail(b))

frombytes(a, b) == bitarray(a.bits \o unpack(a.endian, b), a.endian)

\* item i of a buffer read under endian
getbit(endian, buf, i) ==
    (buf[i \div BitsPerByte + 1] \div BITMASK(endian, i % BitsPerByte)) % 2

\* the buffer with the items from p on replaced by vals
setitems(endian, buf, p, vals) ==
    [j \in 1..Len(buf) |->
        PackByte(endian, [k \in 1..BitsPerByte |->
            LET i == BitsPerByte * (j - 1) + k - 1
            IN  IF p <= i /\ i < p + Len(vals) THEN vals[i - p + 1]
                ELSE getbit(endian, buf, i)])]

\* the buffer with the unused bits after nbits set to 0
setunused(endian, buf, nbits) ==
    setitems(endian, buf, nbits, [k \in 1..padlen(nbits) |-> 0])

\* one byte with the order of its bits reversed
ReverseTable == [v \in 0..(ByteValues - 1) |-> PackByte("big", UnpackByte("little", v))]

\* b.bytereverse(): every byte of the buffer has its bit order reversed
reverse_bytes(buf) == [j \in 1..Len(buf) |-> ReverseTable[buf[j]]]

bytereverse(endian, buf, nbits) == reverse_bytes(setunused(endian, buf, nbits))

\* the bitarray of nbits items whose buffer is buf
frombuffer(endian, buf, nbits) ==
    bitarray([k \in 1..nbits |-> getbit(endian, buf, k - 1)], endian)

(***************************************************************************)
(* zeros                                                                   *)
(***************************************************************************)
zeros(len, endian) == bitarray([k \in 1..len |-> 0], endian)

(***************************************************************************)
(* make_endian; pad is the content of the unused bits of a's buffer        *)
(***************************************************************************)
make_endian_keep_tail(a, endian, pad) ==
    IF a.endian = endian THEN a
    ELSE Let(buffer(a, pad), LAMBDA b0 :
         Let(bytereverse(endian, b0, length(a)), LAMBDA b1 :
         frombuffer(endian, b1, length(a))))

make_endian(a, endian, pad) ==
    IF a.endian = endian THEN a
    ELSE LET la == length(a)
         IN  \* b = bitarray(a, endian=endian): the buffer of a, copied
             Let(buffer(a, pad), LAMBDA b0 :
             IF la = 0 THEN bitarray(<<>>, endian)
             ELSE \* b.bytereverse()
                  Let(bytereverse(endian, b0, la), LAMBDA b1 :
                  LET p == BitsPerByte * (bits2bytes(la) - 1)
                  IN  \* b[p:] = a[p:]
                      Let(IF la % BitsPerByte # 0
                          THEN setitems(endian, b1, p, slice(a, p, la).bits)
                          ELSE b1, LAMBDA b2 :
                      frombuffer(endian, b2, la))))

(***************************************************************************)
(* strip                                                                   *)
(***************************************************************************)
strip_right_exclusive(a, mode) ==
    IF mode \notin {"left", "right", "both"} THEN Raise("ValueError")
    ELSE LET first == IF mode \in {"left", "both"} THEN index(a) ELSE 0
             last  == IF mode \in {"right", "both"} THEN rindex(a) ELSE length(a) - 1
         IN  IF first = NONE \/ last = NONE THEN Ok(bitarray(<<>>, a.endian))
             ELSE Ok(slice(a, first, last))

strip(a, mode) ==
    IF mode \notin {"left", "right", "both"} THEN Raise("ValueError")
    ELSE LET first == IF mode \in {"left", "both"} THEN index(a) ELSE 0
         IN  IF first = NONE THEN Ok(bitarray(<<>>, a.endian))
             ELSE LET last == IF mode \in {"right", "both"} THEN rindex(a)
                              ELSE length(a) - 1
                  IN  IF last = NONE THEN Ok(bitarray(<<>>, a.endian))
                      ELSE Ok(slice(a, first, last + 1))

(***************************************************************************)
(* ba2hex / hex2ba.  A string is a sequence of one-character strings.      *)
(***************************************************************************)
HexDigits == <<"0", "1", "2", "3", "4", "5", "6", "7",
               "8", "9", "a", "b", "c", "d", "e", "f">>
HexDigitsUpper == <<"0", "1", "2", "3", "4", "5", "6", "7",
                    "8", "9", "A", "B", "C", "D", "E", "F">>

\* translate table which swaps the 4 highest with the 4 lowest bits
_swap_hilo_list == [i \in 0..(ByteValues - 1) |->
                       NibbleValues * (i % NibbleValues) + (i \div NibbleValues)]

translate(b, table) == [j \in 1..Len(b) |-> table[b[j]]]

\* binascii.hexlify: two lower-case digits per byte, the high nibble first
hexlify(b) == [k \in 1..(2 * Len(b)) |->
                  IF k % 2 = 1 THEN HexDigits[b[(k + 1) \div 2] \div NibbleValues + 1]
                  ELSE HexDigits[(b[k \div 2] % NibbleValues) + 1]]

hexvalue(c) == (CHOOSE d \in 1..NibbleValues : HexDigits[d] = c \/ HexDigitsUpper[d] = c) - 1

\* binascii.unhexlify: one byte per two digits (of either case)
unhexlify(s) == [j \in 1..(Len(s) \div 2) |->
                    NibbleValues * hexvalue(s[2 * j - 1]) + hexvalue(s[2 * j])]

\* ba2hex(a); fill is the content of the uninitialised bitarray(4, ...)
ba2hex_no_swap(a, fill) ==
    LET la == length(a)
    IN  IF la % BitsPerNibble # 0 THEN Raise("ValueError")
        ELSE LET a1 == IF la % BitsPerByte # 0
                       THEN concat(a, bitarray(fill, a.endian)) ELSE a
                 s  == hexlify(tobytes(a1))
             IN  IF la % BitsPerByte # 0 THEN Ok(SubSeq(s, 1, Len(s) - 1)) ELSE Ok(s)

ba2hex(a, fill) ==
    LET la == length(a)
    IN  IF la % BitsPerNibble # 0 THEN Raise("ValueError")
        ELSE LET a1 == IF la % BitsPerByte # 0
                       THEN concat(a, bitarray(fill, a.endian)) ELSE a
                 b0 == tobytes(a1)
                 b  == IF a1.endian = "little" THEN translate(b0, _swap_hilo_list) ELSE b0
                 s  == hexlify(b)
             IN  IF la % BitsPerByte # 0 THEN Ok(SubSeq(s, 1, Len(s) - 1)) ELSE Ok(s)

hex2ba(s, endian) ==
    LET ls == Len(s)
        s1 == IF ls % 2 # 0 THEN Append(s, "0") ELSE s
        a0 == bitarray(<<>>, endian)
        b0 == unhexlify(s1)
        b  == IF a0.endian = "little" THEN translate(b0, _swap_hilo_list) ELSE b0
        a  == frombytes(a0, b)
    IN  \* del a[-4:]
        IF ls % 2 # 0 THEN slice(a, 0, length(a) - BitsPerNibble) ELSE a

(***************************************************************************)
(* ba2int / int2ba.  Both the Python 2 and the Python 3 paths.             *)
(***************************************************************************)
RECURSIVE bit_length(_)
bit_length(i) == IF i = 0 THEN 0 ELSE 1 + bit_length(i \div 2)

Reverse(s) == [k \in 1..Len(s) |-> s[Len(s) + 1 - k]]

\* int.from_bytes(b, byteorder)
RECURSIVE int_from_big(_)
int_from_big(b) == IF b = <<>> THEN 0
                   ELSE ByteValues * int_from_big(SubSeq(b, 1, Len(b) - 1)) + b[Len(b)]

int_from_bytes(b, byteorder) ==
    IF byteorder = "big" THEN int_from_big(b) ELSE int_from_big(Reverse(b))

\* the Python 2 loop of ba2int: res |= x << 8 * j, for j running down from
\* len(c) - 1 (big) or up from 0 (little); the shifted bytes do not overlap
RECURSIVE or_shifted(_, _, _, _)
or_shifted(c, k, j, step) ==
    IF k > Len(c) THEN 0
    ELSE c[k] * Pow2(BitsPerByte * j) + or_shifted(c, k + 1, j + step, step)

ba2int_pad_front(a, is_py2) ==
    IF length(a) = 0 THEN Raise("ValueError")
    ELSE LET r  == length(a) % BitsPerByte
             a1 == IF r # 0 THEN concat(zeros(BitsPerByte - r, a.endian), a) ELSE a
         IN  Ok(int_from_bytes(tobytes(a1), a.endian))

ba2int(a, is_py2) ==
    IF length(a) = 0 THEN Raise("ValueError")
    ELSE LET endian == a.endian
             big_endian == (endian = "big")
             r  == length(a) % BitsPerByte
             a1 == IF r # 0
                   THEN IF big_endian THEN concat(zeros(BitsPerByte - r, "big"), a)
                        ELSE concat(a, zeros(BitsPerByte - r, "little"))
                   ELSE a
             b  == tobytes(a1)
         IN  IF is_py2
             THEN Ok(or_shifted(b, 1, IF big_endian THEN Len(b) - 1 ELSE 0,
                                IF big_endian THEN -1 ELSE 1))
             ELSE Ok(int_from_bytes(b, endian))

\* the Python 2 loop of int2ba: the bytes of i, the least significant first
RECURSIVE divmod_bytes(_)
divmod_bytes(i) == IF i = 0 THEN <<>>
                   ELSE <<i % ByteValues>> \o divmod_bytes(i \div ByteValues)

\* i.to_bytes(n, byteorder)
int_to_bytes(i, n, byteorder) ==
    LET le == [k \in 1..n |-> (i \div Pow2(BitsPerByte * (k - 1))) % ByteValues]
    IN  IF byteorder = "big" THEN Reverse(le) ELSE le

\* the end of int2ba: a holds the bytes of i > 0, and is brought to len items
int2ba_length_keep_front(a, len, big_endian) ==
    LET la == length(a)
    IN  IF la = len THEN Ok(a)
        ELSE IF len = NONE THEN strip(a, IF big_endian THEN "left" ELSE "right")
        ELSE IF la > len
             THEN LET size == IF big_endian THEN la - index(a) ELSE rindex(a) + 1
                  IN  IF size > len
                      THEN [exc |-> "OverflowError", size |-> size, length |-> len]
                      ELSE Ok(slice(a, 0, len))
        ELSE IF big_endian THEN Ok(concat(zeros(len - la, "big"), a))
             ELSE Ok(concat(a, zeros(len - la, "little")))

int2ba_length_size_ge(a, len, big_endian) ==
    LET la == length(a)
    IN  IF la = len THEN Ok(a)
        ELSE IF len = NONE THEN strip(a, IF big_endian THEN "left" ELSE "right")
        ELSE IF la > len
             THEN LET size == IF big_endian THEN la - index(a) ELSE rindex(a) + 1
                  IN  IF size >= len
                      THEN [exc |-> "OverflowError", size |-> size, length |-> len]
                      ELSE IF big_endian THEN Ok(slice(a, la - len, la))
                           ELSE Ok(slice(a, 0, la + (len - la)))
        ELSE IF big_endian THEN Ok(concat(zeros(len - la, "big"), a))
             ELSE Ok(concat(a, zeros(len - la, "little")))

int2ba_length(a, len, big_endian) ==
    LET la == length(a)
    IN  IF la = len THEN Ok(a)
        ELSE IF len = NONE THEN strip(a, IF big_endian THEN "left" ELSE "right")
        ELSE IF la > len
             THEN LET size == IF big_endian THEN la - index(a) ELSE rindex(a) + 1
                  IN  IF size > len
                      THEN [exc |-> "OverflowError", size |-> size, length |-> len]
                      \* a[la - length:], or a[:length - la] with length - la < 0
                      ELSE IF big_endian THEN Ok(slice(a, la - len, la))
                           ELSE Ok(slice(a, 0, la + (len - la)))
        ELSE IF big_endian THEN Ok(concat(zeros(len - la, "big"), a))
             ELSE Ok(concat(a, zeros(len - la, "little")))

int2ba(i, len, endian, is_py2) ==
    IF i < 0 THEN Raise("ValueError")
    ELSE IF len # NONE /\ len <= 0 THEN Raise("ValueError")
    ELSE IF endian \notin {"big", "little"} THEN Raise("ValueError")
    ELSE IF i = 0 THEN Ok(zeros(IF len = NONE THEN 1 ELSE len, endian))
    ELSE LET big_endian == (endian = "big")
             c  == divmod_bytes(i)
             b  == IF is_py2 THEN (IF big_endian THEN Reverse(c) ELSE c)
                   ELSE int_to_bytes(i, bits2bytes(bit_length(i)), endian)
         IN  int2ba_length(frombytes(bitarray(<<>>, endian), b), len, big_endian)

(***************************************************************************)
(* huffman_code.  A node is a record with .freq and either .symbol (leaf)  *)
(* or .child (parent).  freq_map is given as the sequence of its items in  *)
(* iteration order; the symbols of a dict are distinct.                    *)
(***************************************************************************)
get_default_endian == "big"

\* Node.__lt__
lt_reversed(self, other) == self.freq > other.freq

lt(self, other) == self.freq < other.freq

\* heapq._siftdown; positions count from 0
RECURSIVE siftdown_loop(_, _, _, _)
siftdown_loop(heap, startpos, pos, newitem) ==
    IF pos > startpos
    THEN LET parentpos == (pos - 1) \div 2
             parent == heap[parentpos + 1]
         IN  IF lt(newitem, parent)
             THEN siftdown_loop([heap EXCEPT ![pos + 1] = parent], startpos, parentpos, newitem)
             ELSE [heap EXCEPT ![pos + 1] = newitem]
    ELSE [heap EXCEPT ![pos + 1] = newitem]

_siftdown(heap, startpos, pos) == siftdown_loop(heap, startpos, pos, heap[pos + 1])

\* heapq._siftup
RECURSIVE siftup_loop(_, _, _, _)
siftup_loop(heap, startpos, pos, newitem) ==
    LET endpos == Len(heap)
        leftpos == 2 * pos + 1
    IN  IF leftpos < endpos
        THEN LET rightpos == leftpos + 1
                 childpos == IF rightpos < endpos
                                /\ ~lt(heap[leftpos + 1], heap[rightpos + 1])
                             THEN rightpos ELSE leftpos
             IN  siftup_loop([heap EXCEPT ![pos + 1] = heap[childpos + 1]],
                             startpos, childpos, newitem)
        ELSE _siftdown([heap EXCEPT ![pos + 1] = newitem], startpos, pos)

_siftup(heap, pos) == siftup_loop(heap, pos, pos, heap[pos + 1])

\* heapq.heappush: the heap with item pushed
heappush(heap, item) == _siftdown(Append(heap, item), 0, Len(heap))

\* heapq.heappop: <<the item popped, the heap left>>
heappop(heap) ==
    LET lastelt == heap[Len(heap)]
        rest == SubSeq(heap, 1, Len(heap) - 1)
    IN  IF Len(rest) > 0
        THEN <<rest[1], _siftup([rest EXCEPT ![1] = lastelt], 0)>>
        ELSE <<lastelt, rest>>

\* the first loop of huff_tree: all the leaf nodes, pushed onto the queue
RECURSIVE push_leaves(_, _)
push_leaves(heap, items) ==
    IF items = <<>> THEN heap
    ELSE push_leaves(heappush(heap, [symbol |-> Head(items)[1], freq |-> Head(items)[2]]),
                     Tail(items))

\* one iteration of the second loop of huff_tree:
\* [child_0, child_1, parent, minheap] after it
new_parent_keep_freq(child_0, child_1) ==
    [child |-> <<child_0, child_1>>, freq |-> child_1.freq]

new_parent(child_0, child_1) ==
    [child |-> <<child_0, child_1>>, freq |-> child_0.freq + child_1.freq]

merge(heap) ==
    Let(heappop(heap), LAMBDA p0 :
    Let(heappop(p0[2]), LAMBDA p1 :
    Let(new_parent(p0[1], p1[1]), LAMBDA parent :
    [child_0 |-> p0[1], child_1 |-> p1[1], parent |-> parent,
     minheap |-> heappush(p1[2], parent)])))

\* traverse: the entries written to result, a later one replacing an earlier
\* one of the same symbol
RECURSIVE traverse_same_bit(_, _)
traverse_same_bit(nd, prefix) ==
    IF "symbol" \in DOMAIN nd THEN (nd.symbol :> prefix)
    ELSE traverse_same_bit(nd.child[2], concat(prefix, bitarray(<<0>>, get_default_endian)))
         @@ traverse_same_bit(nd.child[1], concat(prefix, bitarray(<<0>>, get_default_endian)))

RECURSIVE traverse(_, _)
traverse(nd, prefix) ==
    IF "symbol" \in DOMAIN nd THEN (nd.symbol :> prefix)
    ELSE traverse(nd.child[2], concat(prefix, bitarray(<<1>>, get_default_endian)))
         @@ traverse(nd.child[1], concat(prefix, bitarray(<<0>>, get_default_endian)))

(***************************************************************************)
(* The inputs.                                                             *)
(***************************************************************************)
BitSeqs(n) == UNION {[1..k -> Bit] : k \in 0..n}
BitArrays(n) == {bitarray(s, e) : s \in BitSeqs(n), e \in Endians}

Modes == {"left", "right", "both", "middle"}

StripInputs == [a : BitArrays(MaxBits), mode : Modes]

EndianInputs == [a : BitArrays(MaxBits), endian : Endians]

HexLengths == {BitsPerNibble * k : k \in 0..MaxNibbles} \cup 1..(BitsPerNibble + 1)
HexInputs == [a : {bitarray(s, e) : s \in UNION {[1..k -> Bit] : k \in HexLengths},
                                    e \in Endians}]

IntInputs == [i : (-1)..MaxInt, length : {NONE} \cup 0..MaxLength,
              endian : Endians, is_py2 : BOOLEAN]

\* the frequencies of the example of the documentation of Huffman codes
TextbookFreqs == <<5, 9, 12, 13, 16, 45>>

Items(freqs) == [k \in 1..Len(freqs) |-> <<k, freqs[k]>>]

FreqSeqs == UNION {[1..n -> 0..MaxFreq] : n \in 0..MaxSyms}
               \cup {TextbookFreqs, Reverse(TextbookFreqs), SubSeq(TextbookFreqs, 1, 1)}

\* endian is "None" when the argument is left out
HuffInputs == [freq_map : {Items(f) : f \in FreqSeqs}, endian : Endians \cup {"None"}]

(***************************************************************************)
(* The state machine: one call, or one chain of two calls, per behaviour.  *)
(* inp holds the arguments of the first call, mid what it gave, out what   *)
(* the second call gave (for huffman_code: mid holds the locals of the     *)
(* loop of huff_tree, out what huffman_code gave).                         *)
(***************************************************************************)
Start(o) ==
    /\ op = o
    /\ pc = "start"
    /\ inp = None
    /\ mid = None
    /\ out = None
    /\ minheap = <<>>
    /\ merges = 0

InitStrip == Start("strip")
InitEndian == Start("make_endian")
InitHex == Start("hex")
InitInt == Start("int")
InitHuffman == Start("huffman_code")

Init == InitStrip \/ InitEndian \/ InitHex \/ InitInt \/ InitHuffman

\* what the unused bits of the buffer of a may hold when make_endian copies
\* it (it does when the endianness differs)
Pads(a, endian) == IF a.endian = endian THEN {<<>>}
                   ELSE [1..padlen(length(a)) -> Bit]

\* what the bitarray(4, ...) of ba2hex may hold (it is made when the length is
\* a multiple of 4 and not of 8)
Fills(a) == IF length(a) % BitsPerByte = BitsPerNibble THEN [1..BitsPerNibble -> Bit]
            ELSE {<<>>}

\* strip(a, mode)
Strip ==
    /\ op = "strip" /\ pc = "start"
    /\ \E x \in StripInputs :
          /\ inp' = x
          /\ mid' = strip(x.a, x.mode)
    /\ pc' = "mid"
    /\ UNCHANGED <<op, out, minheap, merges>>

\* strip(strip(a, mode), mode)
StripAgain ==
    /\ op = "strip" /\ pc = "mid" /\ IsOk(mid)
    /\ out' = strip(mid.val, inp.mode)
    /\ pc' = "done"
    /\ UNCHANGED <<op, inp, mid, minheap, merges>>

\* make_endian(a, endian)
MakeEndian ==
    /\ op = "make_endian" /\ pc = "start"
    /\ \E x \in EndianInputs :
          /\ inp' = x
          /\ \E pad \in Pads(x.a, x.endian) :
                mid' = Ok(make_endian(x.a, x.endian, pad))
    /\ pc' = "mid"
    /\ UNCHANGED <<op, out, minheap, merges>>

\* make_endian(make_endian(a, endian), a.endian())
MakeEndianBack ==
    /\ op = "make_endian" /\ pc = "mid"
    /\ \E pad \in Pads(mid.val, inp.a.endian) :
          out' = Ok(make_endian(mid.val, inp.a.endian, pad))
    /\ pc' = "done"
    /\ UNCHANGED <<op, inp, mid, minheap, merges>>

\* ba2hex(a)
Ba2hex ==
    /\ op = "hex" /\ pc = "start"
    /\ \E x \in HexInputs :
          /\ inp' = x
          /\ \E fill \in Fills(x.a) : mid' = ba2hex(x.a, fill)
    /\ pc' = "mid"
    /\ UNCHANGED <<op, out, minheap, merges>>

\* hex2ba(ba2hex(a), endian=a.endian())
Hex2ba ==
    /\ op = "hex" /\ pc = "mid" /\ IsOk(mid)
    /\ out' = Ok(hex2ba(mid.val, inp.a.endian))
    /\ pc' = "done"
    /\ UNCHANGED <<op, inp, mid, minheap, merges>>

\* int2ba(i, length, endian)
Int2ba ==
    /\ op = "int" /\ pc = "start"
    /\ \E x \in IntInputs :
          /\ inp' = x
          /\ mid' = int2ba(x.i, x.length, x.endian, x.is_py2)
    /\ pc' = "mid"
    /\ UNCHANGED <<op, out, minheap, merges>>

\* ba2int(int2ba(i, length, endian))
Ba2int ==
    /\ op = "int" /\ pc = "mid" /\ IsOk(mid)
    /\ out' = ba2int(mid.val, inp.is_py2)
    /\ pc' = "done"
    /\ UNCHANGED <<op, inp, mid, minheap, merges>>

\* huffman_code(freq_map, endian): the checks of the argument, and the first
\* loop of huff_tree
HuffStart ==
    /\ op = "huffman_code" /\ pc = "start"
    /\ \E x \in HuffInputs :
          /\ inp' = x
          /\ IF Len(x.freq_map) = 0
             THEN /\ out' = Raise("ValueError")
                  /\ pc' = "done"
                  /\ UNCHANGED minheap
             ELSE /\ minheap' = push_leaves(<<>>, x.freq_map)
                  /\ pc' = "loop"
                  /\ UNCHANGED out
    /\ UNCHANGED <<op, mid, merges>>

\* huff_tree: one iteration of `while len(minheap) > 1`
HuffMerge ==
    /\ op = "huffman_code" /\ pc = "loop"
    /\ Len(minheap) > 1
    /\ \E m \in {merge(minheap)} :
          /\ minheap' = m.minheap
          /\ mid' = [child_0 |-> m.child_0, child_1 |-> m.child_1, parent |-> m.parent]
    /\ merges' = merges + 1
    /\ UNCHANGED <<op, pc, inp, out>>

\* huff_tree returns minheap[0]; traverse fills result, which is returned
HuffReturn ==
    /\ op = "huffman_code" /\ pc = "loop"
    /\ ~(Len(minheap) > 1)
    /\ out' = Ok(traverse(minheap[1],
                          bitarray(<<>>, IF inp.endian = "None" THEN get_default_endian
                                         ELSE inp.endian)))
    /\ pc' = "done"
    /\ UNCHANGED <<op, inp, mid, minheap, merges>>

NextStrip == Strip \/ StripAgain
NextEndian == MakeEndian \/ MakeEndianBack
NextHex == Ba2hex \/ Hex2ba
NextInt == Int2ba \/ Ba2int
NextHuffman == HuffStart \/ HuffMerge \/ HuffReturn

Next == NextStrip \/ NextEndian \/ NextHex \/ NextInt \/ NextHuffman

Spec == Init /\ [][Next]_vars

\* one specification per function, or pair of functions
SpecStrip == InitStrip /\ [][NextStrip]_vars
SpecEndian == InitEndian /\ [][NextEndian]_vars
SpecHex == InitHex /\ [][NextHex]_vars
SpecInt == InitInt /\ [][NextInt]_vars
SpecHuffman == InitHuffman /\ [][NextHuffman]_vars

\* huffman_code is one synchronous call with no suspension point: a step that
\* can be taken is taken
FairHuffman == SpecHuffman /\ WF_vars(HuffMerge) /\ WF_vars(HuffReturn)

(***************************************************************************)
(* What the properties are stated with.                                    *)
(***************************************************************************)
RECURSIVE SumSeq(_)
SumSeq(s) == IF s = <<>> THEN 0 ELSE Head(s) + SumSeq(Tail(s))

Min(S) == CHOOSE x \in S : \A y \in S : x <= y

\* s is a prefix of t, or equal to it
IsPrefix(s, t) == Len(s) <= Len(t) /\ SubSeq(t, 1, Len(s)) = s

\* the number of significant bits of i > 0
SignificantBits(i) == CHOOSE s \in 1..(i + 1) : Pow2(s - 1) <= i /\ i < Pow2(s)

InputFreqs == [k \in 1..Len(inp.freq_map) |-> inp.freq_map[k][2]]
InputSymbols == {inp.freq_map[k][1] : k \in 1..Len(inp.freq_map)}
FreqOf(sym) == inp.freq_map[CHOOSE k \in 1..Len(inp.freq_map) : inp.freq_map[k][1] = sym][2]

\* the sum over the symbols of frequency times code length
WeightedLength(code) ==
    LET RECURSIVE Sum(_)
        Sum(k) == IF k > Len(inp.freq_map) THEN 0
                  ELSE inp.freq_map[k][2] * length(code[inp.freq_map[k][1]]) + Sum(k + 1)
    IN  Sum(1)

\* the least weighted length of a code tree over the symbols S: a tree over
\* two or more symbols splits them into two subtrees, and puts every symbol
\* one bit deeper.  (A prefix code is the leaves of a binary tree; a node with
\* one child only makes the codes below it longer.)
RECURSIVE MinWeightedLength(_)
MinWeightedLength(S) ==
    IF Cardinality(S) <= 1 THEN 0
    ELSE LET pivot == CHOOSE x \in S : TRUE
             total == SumSeq([k \in 1..Len(inp.freq_map) |->
                                IF inp.freq_map[k][1] \in S THEN inp.freq_map[k][2] ELSE 0])
         IN  total + Min({MinWeightedLength(T \cup {pivot})
                            + MinWeightedLength(S \ (T \cup {pivot})) :
                          T \in (SUBSET (S \ {pivot})) \ {S \ {pivot}}})

RECURSIVE Leaves(_)
Leaves(nd) == IF "symbol" \in DOMAIN nd THEN <<nd.symbol>>
              ELSE Leaves(nd.child[1]) \o Leaves(nd.child[2])

RECURSIVE QueuedLeaves(_)
QueuedLeaves(heap) == IF heap = <<>> THEN <<>>
                      ELSE Leaves(Head(heap)) \o QueuedLeaves(Tail(heap))

QueuedFreqs(heap) == [k \in 1..Len(heap) |-> heap[k].freq]

FreqBag(heap) == [f \in {heap[k].freq : k \in 1..Len(heap)} |->
                     Cardinality({k \in 1..Len(heap) : heap[k].freq = f})]

(***************************************************************************)
(* The properties.                                                         *)
(***************************************************************************)

\* C1: for every integer i >= 0 and either endianness, int2ba(i) without a
\* length returns a bitarray, and ba2int of it returns i.
C1_IntRoundTrip ==
    (op = "int" /\ pc # "start" /\ inp.i >= 0 /\ inp.length = NONE) =>
        /\ IsOk(mid)
        /\ pc = "done" => IsOk(out) /\ out.val = inp.i

C1_Witness ==
    /\ op = "int" /\ pc = "done"
    /\ inp.i = 257 /\ inp.length = NONE /\ inp.endian = "little"
    /\ length(mid.val) = 9
    /\ out.val = 257

\* C2: for every i >= 0 and length >= 1 with i < 2^length, int2ba(i, length)
\* returns a bitarray of exactly length items, and ba2int of it returns i.
C2_FixedLengthRoundTrip ==
    (op = "int" /\ pc # "start" /\ inp.i >= 0 /\ inp.length >= 1
        /\ inp.i < Pow2(inp.length)) =>
        /\ IsOk(mid) /\ length(mid.val) = inp.length
        /\ pc = "done" => IsOk(out) /\ out.val = inp.i

\* the natural length (16) is greater than the length asked for (10)
C2_Witness ==
    /\ op = "int" /\ pc = "done"
    /\ inp.i = 257 /\ inp.length = 10 /\ inp.endian = "little"
    /\ length(mid.val) = 10
    /\ out.val = 257

\* C3: for every i > 0 and length >= 1, int2ba(i, length) raises OverflowError
\* exactly when i >= 2^length; it then returns no bitarray, and the error
\* carries the number of significant bits of i and the length asked for.
C3_OverflowExactly ==
    (op = "int" /\ pc # "start" /\ inp.i > 0 /\ inp.length >= 1) =>
        /\ (IsError(mid) /\ mid.exc = "OverflowError") <=> (inp.i >= Pow2(inp.length))
        /\ (inp.i >= Pow2(inp.length)) =>
              /\ ~IsOk(mid)
              /\ mid.size = SignificantBits(inp.i)
              /\ mid.length = inp.length

C3_Witness ==
    /\ op = "int" /\ pc = "mid"
    /\ inp.i = 256 /\ inp.length = 4
    /\ mid = [exc |-> "OverflowError", size |-> 9, length |-> 4]

\* C4: for every bitarray a whose length is a multiple of 4, ba2hex(a) returns
\* a string, and hex2ba of it with the endianness of a is a bitarray equal to
\* a, of the same length and the same endianness.
C4_HexRoundTrip ==
    (op = "hex" /\ pc # "start" /\ length(inp.a) % BitsPerNibble = 0) =>
        /\ IsOk(mid) /\ Len(mid.val) * BitsPerNibble = length(inp.a)
        /\ pc = "done" =>
              /\ IsOk(out)
              /\ out.val.endian = inp.a.endian
              /\ length(out.val) = length(inp.a)
              /\ out.val.bits = inp.a.bits

\* twelve items: one whole byte, and a nibble that is padded
C4_Witness ==
    /\ op = "hex" /\ pc = "done"
    /\ inp.a = bitarray(<<1, 0, 0, 0, 0, 1, 1, 0, 1, 1, 0, 1>>, "little")
    /\ mid.val = <<"1", "6", "b">>
    /\ out.val = inp.a

\* C5: for every bitarray a and every endian other than that of a,
\* make_endian(a, endian) has the endianness endian, the length of a and the
\* item of a at every position; and for a big-endian a,
\* make_endian(make_endian(a, 'little'), 'big') has the items of a.
C5_MakeEndianSameItems ==
    (op = "make_endian" /\ pc # "start" /\ inp.endian # inp.a.endian) =>
        /\ mid.val.endian = inp.endian
        /\ length(mid.val) = length(inp.a)
        /\ \A k \in 1..length(inp.a) : mid.val.bits[k] = inp.a.bits[k]
        /\ (pc = "done" /\ inp.a.endian = "big") =>
              /\ out.val.endian = "big"
              /\ out.val.bits = inp.a.bits

\* nine items: one whole byte and one item in the last byte
C5_Witness ==
    /\ op = "make_endian" /\ pc = "done"
    /\ inp.a = bitarray(<<1, 0, 1, 1, 0, 0, 1, 0, 1>>, "big")
    /\ inp.endian = "little"
    /\ mid.val = bitarray(<<1, 0, 1, 1, 0, 0, 1, 0, 1>>, "little")
    /\ out.val = inp.a

\* C6: for every non-empty freq_map, huffman_code returns a dict with exactly
\* one entry per symbol of freq_map, in which no code is a prefix of, or equal
\* to, the code of another symbol.
C6_PrefixFree ==
    (op = "huffman_code" /\ pc = "done" /\ Len(inp.freq_map) >= 1) =>
        /\ IsOk(out)
        /\ DOMAIN out.val = InputSymbols
        /\ \A s \in InputSymbols : out.val[s].bits \in Seq(Bit)
        /\ \A s, u \in InputSymbols :
              s # u => ~IsPrefix(out.val[s].bits, out.val[u].bits)

\* four symbols, with a zero frequency and two equal ones
C6_Witness ==
    /\ op = "huffman_code" /\ pc = "done"
    /\ InputFreqs = <<0, 1, 1, 2>>
    /\ IsOk(out)
    /\ Cardinality(DOMAIN out.val) = 4

\* C7: for a freq_map of exactly one symbol, the code of that symbol has
\* exactly one bit.
C7_SingleSymbolOneBit ==
    (op = "huffman_code" /\ pc = "done" /\ Len(inp.freq_map) = 1) =>
        /\ IsOk(out)
        /\ \A s \in DOMAIN out.val : length(out.val[s]) = 1

\* C8: for every freq_map of two or more symbols, the weighted length of the
\* code returned is the least weighted length of any code tree over the
\* symbols; for the frequencies 5, 9, 12, 13, 16, 45 it is 224.
C8_MinimalWeightedLength ==
    (op = "huffman_code" /\ pc = "done" /\ Len(inp.freq_map) >= 2) =>
        /\ IsOk(out)
        /\ WeightedLength(out.val) = MinWeightedLength(InputSymbols)
        /\ InputFreqs = TextbookFreqs => WeightedLength(out.val) = 224

C8_Witness ==
    /\ op = "huffman_code" /\ pc = "done"
    /\ InputFreqs = TextbookFreqs
    /\ WeightedLength(out.val) = 224
    /\ length(out.val[6]) = 1
    /\ length(out.val[1]) = 4

\* C9: for every bitarray a, strip(a, 'both') returns a bitarray (an empty one
\* for an empty or all-zero a), and strip(strip(a, 'both'), 'both') is equal
\* to it.
C9_StripIdempotent ==
    (op = "strip" /\ pc # "start" /\ inp.mode = "both") =>
        /\ IsOk(mid)
        /\ (\A k \in 1..length(inp.a) : inp.a.bits[k] = 0) => length(mid.val) = 0
        /\ pc = "done" => IsOk(out) /\ out.val = mid.val

C9_Witness ==
    /\ op = "strip" /\ pc = "done" /\ inp.mode = "both"
    /\ inp.a.bits = <<0, 0, 1, 0, 1, 1, 0, 0>>
    /\ mid.val.bits = <<1, 0, 1, 1>>
    /\ out.val = mid.val

\* the invariant of the queue of huff_tree over n >= 1 symbols: in every state
\* of the second loop and after it, the frequencies of the queued nodes sum to the sum of the
\* frequencies of freq_map, the leaves under the queued nodes are the symbols
\* of freq_map, and the queue holds n nodes less one per merge made; the loop
\* is left with one node queued after n - 1 merges.
C10_QueueInvariant ==
    (op = "huffman_code" /\ pc \in {"loop", "done"} /\ Len(inp.freq_map) >= 1) =>
        /\ SumSeq(QueuedFreqs(minheap)) = SumSeq(InputFreqs)
        /\ Len(QueuedLeaves(minheap)) = Len(inp.freq_map)
        /\ {QueuedLeaves(minheap)[k] : k \in 1..Len(QueuedLeaves(minheap))} = InputSymbols
        /\ Len(minheap) + merges = Len(inp.freq_map)
        /\ Len(minheap) >= 1
        /\ pc = "done" => Len(minheap) = 1 /\ merges = Len(inp.freq_map) - 1

\* every merge takes the two nodes of lowest frequency out of the queue and
\* puts in one node, their parent, whose frequency is their sum
C10_MergeStep ==
    (merges' = merges + 1) =>
        LET B  == FreqBag(minheap)
            f0 == Min(BagToSet(B))
            B1 == B (-) SetToBag({f0})
            f1 == Min(BagToSet(B1))
        IN  /\ mid'.child_0.freq = f0
            /\ mid'.child_1.freq = f1
            /\ mid'.parent.child = <<mid'.child_0, mid'.child_1>>
            /\ mid'.parent.freq = f0 + f1
            /\ \E k \in 1..Len(minheap') : minheap'[k] = mid'.parent
            /\ FreqBag(minheap') = (B1 (-) SetToBag({f1})) (+) SetToBag({f0 + f1})

\* the loop ends
C10_Terminates ==
    (op = "huffman_code" /\ pc = "loop") ~> (pc = "done")

\* C10: in huff_tree over n >= 1 symbols, the second loop ends after exactly
\* n - 1 merges with one node left in the queue; every merge takes out the two
\* nodes of lowest frequency and puts in one node whose frequency is their
\* sum; and in every state the frequencies of the queued nodes sum to the sum
\* of the frequencies of freq_map and the leaves under the queued nodes are
\* the symbols of freq_map.
C10_MergeLoop ==
    /\ []C10_QueueInvariant
    /\ [][C10_MergeStep]_vars
    /\ C10_Terminates

\* the six symbols of the example, after the five merges
C10_Witness ==
    /\ op = "huffman_code" /\ pc = "done"
    /\ InputFreqs = TextbookFreqs
    /\ merges = 5
    /\ Len(minheap) = 1
    /\ minheap[1].freq = 100

=============================================================================
